---- MODULE Spec2Model ----
(***************************************************************************)
(* Model of the financial_analysis tool: the SQLite-backed price store     *)
(* (src/src/database.py), the Tiingo fetch boundary (src/src/datafetch.py),*)
(* the cache coordinator and per-ticker loop (src/src/main.py) and the     *)
(* rolling-window indicators (src/src/analysis.py).                        *)
(*                                                                         *)
(* A price bar is identified by its calendar date, a number in Dates.      *)
(* Text values (SQL literals, stored DATETIME text) are sequences of       *)
(* naturals compared lexicographically, as SQLite compares TEXT.           *)
(***************************************************************************)
EXTENDS Integers, Sequences, FiniteSets, TLC

(* ------------------------------ bounds --------------------------------- *)
MaxDate == 2        \* start and end dates range over 1..MaxDate
MaxRows == 3        \* rows the database holds at most, over all tables
MaxTickers == 2     \* tickers on one command line at most
MaxKeep == 1        \* --cache-days ranges over 0..MaxKeep
MaxLen == 4         \* bars in an analysed series at most
MaxPrice == 3       \* adjusted closes range over 1..MaxPrice
MaxWindow == 3      \* indicator windows range over 1..MaxWindow

Symbols == {"X", "Y"}
Dates == 1..MaxDate
None == 0
\* The clock's date: the dates a command line names lie before it.
Today == MaxDate + 1
Freqs == {"daily", "weekly", "monthly"}

VARIABLES
    tables,   \* names of the tables that exist in the database
    rows,     \* rows[t]: the stored date texts of table t, in insertion order
    last,     \* the _get_data_with_cache call that has just finished
    api,      \* the direct call of a FinancialDatabase method just finished
    runPc,    \* "idle" | "loop" | "done" | "aborted": position of run()
    params,   \* the dict get_user_input() returned
    idx,      \* position of the for loop in params.tickers
    log,      \* ticker and status of every loop iteration that has finished
    data,     \* FinancialAnalyzer.data['adjClose']
    out       \* what the latest indicator call returned

vars == <<tables, rows, last, api, runPc, params, idx, log, data, out>>

(* ------------------------------ helpers -------------------------------- *)
Min(a, b) == IF a <= b THEN a ELSE b

\* SQLite's comparison of two TEXT values: bytewise, a proper prefix is smaller.
LexLess(a, b) ==
    \E k \in 1..(Min(Len(a), Len(b)) + 1) :
        /\ \A j \in 1..(k - 1) : a[j] = b[j]
        /\ \/ k = Len(a) + 1 /\ k <= Len(b)
           \/ k <= Len(a) /\ k <= Len(b) /\ a[k] < b[k]

LexLeq(a, b) == a = b \/ LexLess(a, b)

\* The text SQLAlchemy's DateTime type stores for a pandas midnight Timestamp:
\* 'YYYY-MM-DD 00:00:00.000000', the date followed by a time-of-day part.
StoreFmt(d) == <<d, 0>>

\* parse_dates=['date'] of pd.read_sql: the stored text back to a Timestamp.
ParseDate(t) == t[1]

\* The f-string rendering of a 'YYYY-MM-DD' parameter inside the SQL text.
Literal(d) == <<d>>

\* str(datetime.now() - timedelta(days=keep_days)): a date with the clock's
\* time of day, which is later than midnight.
CutoffFmt(keep_days) == <<Today - keep_days, 1>>

RECURSIVE SortSet(_)
\* DataFrame.sort_index(): the bars of a response in ascending date order.
SortSet(S) ==
    IF S = {} THEN <<>>
    ELSE LET m == CHOOSE x \in S : \A y \in S : x <= y
         IN <<m>> \o SortSet(S \ {m})

\* A DataFrame's dates as the texts of its rows, and back.
StoreTexts(df) == [i \in 1..Len(df) |-> StoreFmt(df[i])]
ParseDates(txt) == [i \in 1..Len(txt) |-> ParseDate(txt[i])]

(* --------------------------- database.py ------------------------------- *)
table_exists(table_name) == table_name \in tables

\* Module-level names of database.py: its imports and its class.
DatabaseGlobals ==
    {"os", "pd", "create_engine", "inspect", "DateTime", "Float",
     "FinancialDatabase"}

\* load_data as it would be without its WHERE clause.
load_data_unfiltered(table_name, start_date, end_date) ==
    IF ~table_exists(table_name)
    THEN [raised |-> "OperationalError", rows |-> <<>>]
    ELSE [raised |-> "none", rows |-> ParseDates(rows[table_name])]

\* load_data: [raised, rows] with rows the DataFrame's index, in the order the
\* SELECT (which has no ORDER BY) yields the rows: insertion order.
load_data(table_name, start_date, end_date) ==
    IF ~table_exists(table_name)
    THEN [raised |-> "OperationalError", rows |-> <<>>]
    ELSE LET Keep(t) ==
                 /\ (start_date # None => LexLeq(Literal(start_date), t))
                 /\ (end_date # None => LexLeq(t, Literal(end_date)))
         IN [raised |-> "none",
             rows |-> ParseDates(SelectSeq(rows[table_name], Keep))]

\* save_data with if_exists='append': [tables, rows] after df.to_sql.
save_data(df, table_name) ==
    [tables |-> tables \cup {table_name},
     rows |-> [rows EXCEPT ![table_name] = @ \o StoreTexts(df)]]

\* clean_old_data on the database db = [tables, rows]:
\* [raised, tables, rows].  The names datetime and timedelta are looked up
\* before the try block is entered; the DELETE is taken to run and commit
\* where the table exists.
clean_old_data(db, table_name, keep_days) ==
    IF keep_days <= 0
    THEN [raised |-> "none", tables |-> db.tables, rows |-> db.rows]
    ELSE IF ~({"datetime", "timedelta"} \subseteq DatabaseGlobals)
    THEN [raised |-> "NameError", tables |-> db.tables, rows |-> db.rows]
    ELSE IF table_name \notin db.tables
    THEN \* the DELETE fails inside the try block: caught and printed
         [raised |-> "none", tables |-> db.tables, rows |-> db.rows]
    ELSE LET Old(t) == LexLess(t, CutoffFmt(keep_days))
             Young(t) == ~Old(t)
         IN [raised |-> "none", tables |-> db.tables,
             rows |-> [db.rows EXCEPT
                          ![table_name] = SelectSeq(@, Young)]]

(* --------------------------- datafetch.py ------------------------------ *)
FetchFailures == {"network", "auth", "rate"}

\* `if end_date is None:` the end of the request is today.
EndDate(end_date) == IF end_date = None THEN Today ELSE end_date

\* What the Tiingo client can do for a request: raise, or answer with the
\* bars of some of the dates of [startDate, endDate].
ClientOutcomes(start_date, end_date) ==
    [kind : FetchFailures, bars : {{}}]
    \cup [kind : {"ok"}, bars : SUBSET (start_date..EndDate(end_date))]

\* fetch_data: the DataFrame's index; empty on any exception.
fetch_data(ticker, start_date, end_date, freq, outcome) ==
    IF outcome.kind \in FetchFailures THEN <<>>
    ELSE SortSet(outcome.bars)

(* ------------------------------ main.py -------------------------------- *)
\* The check before save_data left out.
ShouldSaveAlways(df) == TRUE

\* `if not df.empty:` before save_data.
ShouldSave(df) == df # <<>>

\* fetch_data called without freq, which then takes its default.
FetchArgsDefaultFreq(ticker, p) ==
    <<ticker, p.start_date, p.end_date, "daily">>

\* The arguments _get_data_with_cache hands to fetcher.fetch_data.
FetchArgs(ticker, p) == <<ticker, p.start_date, p.end_date, p.freq>>

\* _get_data_with_cache: everything the call does, as one record.
\*   calls   the arguments of every fetch_data call made
\*   result  the DataFrame returned (<<>> when the call raised)
get_data_with_cache(ticker, p, outcome) ==
    LET tryCache == table_exists(ticker) /\ p.cache_days > 0
        Miss(df, cleaned) ==
            [op |-> "resolve", ticker |-> ticker,
             start_date |-> p.start_date, end_date |-> p.end_date,
             freq |-> p.freq, cache_days |-> p.cache_days,
             existed |-> table_exists(ticker), hit |-> FALSE,
             calls |-> <<FetchArgs(ticker, p)>>,
             outcome |-> outcome.kind, fetched |-> df,
             pruned |-> (ShouldSave(df) /\ p.cache_days > 0),
             raised |-> cleaned.raised,
             result |-> IF cleaned.raised = "none" THEN df ELSE <<>>,
             tables |-> cleaned.tables, rows |-> cleaned.rows]
        Fetch ==
            LET args == FetchArgs(ticker, p)
                df == fetch_data(args[1], args[2], args[3], args[4], outcome)
            IN IF ~ShouldSave(df)
               THEN Miss(df, [raised |-> "none", tables |-> tables,
                              rows |-> rows])
               ELSE IF p.cache_days > 0
               THEN Miss(df, clean_old_data(save_data(df, ticker), ticker,
                                            p.cache_days))
               ELSE Miss(df, [raised |-> "none"] @@ save_data(df, ticker))
    IN IF tryCache
       THEN LET cached == load_data(ticker, p.start_date, p.end_date).rows
            IN IF cached # <<>>
               THEN [op |-> "resolve", ticker |-> ticker,
                     start_date |-> p.start_date, end_date |-> p.end_date,
                     freq |-> p.freq, cache_days |-> p.cache_days,
                     existed |-> TRUE, hit |-> TRUE,
                     calls |-> <<>>, outcome |-> "none", fetched |-> <<>>,
                     pruned |-> FALSE, raised |-> "none", result |-> cached,
                     tables |-> tables, rows |-> rows]
               ELSE Fetch
       ELSE Fetch

\* The status of one loop iteration: r is what _get_data_with_cache did,
\* analysis whether plotting and _print_analysis_summary finish or raise.
IterationStatus(r, analysis) ==
    IF r.raised # "none" THEN "error"
    ELSE IF r.result = <<>> THEN "nodata"
    ELSE IF analysis # "fine" THEN "error"
    ELSE "ok"

\* The loop without its except clause: the exception leaves run().
OnErrorPropagate(i, n) == "aborted"

\* The except clause of the per-ticker loop, reached in iteration i of n:
\* print and continue.
OnError(i, n) == IF i = n THEN "done" ELSE "loop"

NoCall == [op |-> "none"]

NoApi == [op |-> "none"]

NoOut == [op |-> "none"]

NoParams ==
    [tickers |-> <<>>, start_date |-> None, end_date |-> None,
     freq |-> "daily", cache_days |-> 0]

\* The fields of a get_data_with_cache record that describe the call; the
\* others are the database it leaves.
CallFields ==
    {"op", "ticker", "start_date", "end_date", "freq", "cache_days",
     "existed", "hit", "calls", "outcome", "fetched", "pruned", "raised",
     "result"}

\* The parameter dicts get_user_input() lets through, but for the tickers:
\* it exits when the start date is after the end date.
Requests ==
    {p \in [start_date : Dates, end_date : Dates \cup {None}, freq : Freqs,
            cache_days : 0..MaxKeep] :
        p.end_date # None => p.start_date <= p.end_date}

TickerLists == UNION {[1..n -> Symbols] : n \in 1..MaxTickers}

RECURSIVE SumLen(_, _)
SumLen(f, S) ==
    IF S = {} THEN 0
    ELSE LET t == CHOOSE x \in S : TRUE
         IN Len(f[t]) + SumLen(f, S \ {t})

\* The database has room for the bars of this response.
Room(outcome) == SumLen(rows, Symbols) + Cardinality(outcome.bars) <= MaxRows

Init ==
    /\ tables = {}
    /\ rows = [t \in Symbols |-> <<>>]
    /\ last = NoCall
    /\ api = NoApi
    /\ runPc = "idle"
    /\ params = NoParams
    /\ idx = 1
    /\ log = <<>>
    /\ data = <<>>
    /\ out = NoOut

(* ---------------- the store and the coordinator, call by call ---------- *)
\* No call is in progress and no result is waiting for its caller.
Quiet == last = NoCall /\ api = NoApi

\* One call of _get_data_with_cache.
Resolve ==
    /\ Quiet
    /\ \E ticker \in Symbols, p \in Requests :
       \E outcome \in ClientOutcomes(p.start_date, p.end_date) :
          /\ Room(outcome)
          /\ \E r \in {get_data_with_cache(ticker, p, outcome)} :
                /\ tables' = r.tables
                /\ rows' = r.rows
                /\ last' = [k \in CallFields |-> r[k]]
    /\ UNCHANGED <<api, runPc, params, idx, log, data, out>>

\* A direct call of FinancialDatabase.load_data.
LoadData ==
    /\ Quiet
    /\ \E t \in Symbols, s \in Dates \cup {None}, e \in Dates \cup {None} :
       \E r \in {load_data(t, s, e)} :
          api' = [op |-> "load", table |-> t, existed |-> table_exists(t),
                  start_date |-> s, end_date |-> e,
                  raised |-> r.raised, rows |-> r.rows]
    /\ UNCHANGED <<tables, rows, last, runPc, params, idx, log, data, out>>

\* A direct call of FinancialDatabase.clean_old_data.
CleanOldData ==
    /\ Quiet
    /\ \E t \in Symbols, k \in 0..MaxKeep :
       \E r \in {clean_old_data([tables |-> tables, rows |-> rows], t, k)} :
          /\ tables' = r.tables
          /\ rows' = r.rows
          /\ api' = [op |-> "clean", table |-> t,
                     existed |-> table_exists(t), keep_days |-> k,
                     raised |-> r.raised, before |-> rows]
    /\ UNCHANGED <<last, runPc, params, idx, log, data, out>>

\* The caller has taken what the call returned or raised.
Return ==
    /\ ~Quiet
    /\ last' = NoCall
    /\ api' = NoApi
    /\ UNCHANGED <<tables, rows, runPc, params, idx, log, data, out>>

Next == Resolve \/ LoadData \/ CleanOldData \/ Return

Spec == Init /\ [][Next]_vars

(* ------------------------- one run of the tool ------------------------- *)
\* run() up to the for loop.
StartRun ==
    /\ runPc = "idle"
    /\ \E ts \in TickerLists, p \in Requests :
          params' = [tickers |-> ts] @@ p
    /\ runPc' = "loop"
    /\ UNCHANGED <<tables, rows, last, api, idx, log, data, out>>

\* One iteration of the for loop of run(): the try body and its except clause.
\* The DataFrame the call returns is used up inside the iteration.
ProcessTicker ==
    /\ runPc = "loop"
    /\ \E outcome \in ClientOutcomes(params.start_date, params.end_date),
          analysis \in {"fine", "raises"} :
          /\ Room(outcome)
          /\ \E r \in {get_data_with_cache(params.tickers[idx], params,
                                           outcome)} :
             \E status \in {IterationStatus(r, analysis)} :
                /\ tables' = r.tables
                /\ rows' = r.rows
                /\ log' = Append(log, [ticker |-> params.tickers[idx],
                                       status |-> status])
                /\ runPc' = IF status = "error"
                            THEN OnError(idx, Len(params.tickers))
                            ELSE IF idx = Len(params.tickers) THEN "done"
                            ELSE "loop"
                /\ idx' = idx + 1
    /\ UNCHANGED <<last, params, api, data, out>>

NextRun == StartRun \/ ProcessTicker

\* The loop is sequential code: an iteration that can run does run.
RunSpec == Init /\ [][NextRun]_vars /\ WF_vars(ProcessTicker)

(* ----------------------------- analysis.py ----------------------------- *)
\* A float64 value: a NaN, an infinity with its sign s, or the number n/d
\* (d > 0) whose zero, when n = 0, has the sign z.
Nan == [k |-> "nan"]
Inf(s) == [k |-> "inf", s |-> s]
Num(n, d) == [k |-> "num", n |-> n, d |-> d, z |-> 1]
Zero(z) == [k |-> "num", n |-> 0, d |-> 1, z |-> z]

Sign(a) == IF a.k = "inf" THEN a.s
           ELSE IF a.n > 0 THEN 1
           ELSE IF a.n < 0 THEN -1
           ELSE a.z

FNeg(a) ==
    IF a.k = "nan" THEN Nan
    ELSE IF a.k = "inf" THEN Inf(-a.s)
    ELSE [a EXCEPT !.n = -a.n, !.z = -a.z]

FAdd(a, b) ==
    IF a.k = "nan" \/ b.k = "nan" THEN Nan
    ELSE IF a.k = "inf" /\ b.k = "inf"
    THEN IF a.s = b.s THEN a ELSE Nan
    ELSE IF a.k = "inf" THEN a
    ELSE IF b.k = "inf" THEN b
    ELSE IF a.n * b.d + b.n * a.d = 0
    THEN Zero(IF a.n = 0 /\ b.n = 0 /\ a.z = -1 /\ b.z = -1 THEN -1 ELSE 1)
    ELSE Num(a.n * b.d + b.n * a.d, a.d * b.d)

FSub(a, b) == FAdd(a, FNeg(b))

FDiv(a, b) ==
    IF a.k = "nan" \/ b.k = "nan" THEN Nan
    ELSE IF a.k = "inf"
    THEN IF b.k = "inf" THEN Nan ELSE Inf(a.s * Sign(b))
    ELSE IF b.k = "inf" THEN Zero(Sign(a) * b.s)
    ELSE IF b.n = 0
    THEN IF a.n = 0 THEN Nan ELSE Inf(Sign(a) * b.z)
    ELSE IF a.n = 0 THEN Zero(a.z * Sign(b))
    ELSE IF b.n > 0 THEN Num(a.n * b.d, a.d * b.n)
    ELSE Num(-(a.n * b.d), a.d * (-b.n))

\* Series.diff(): no first difference.
Diff(x) == [i \in 1..Len(x) |-> IF i = 1 THEN Nan
                                ELSE FSub(Num(x[i], 1), Num(x[i - 1], 1))]

\* delta > 0 and delta < 0: a comparison with NaN is False.
Positive(a) == a.k # "nan" /\ (a.k = "inf" => a.s = 1) /\ (a.k = "num" => a.n > 0)
Negative(a) == a.k # "nan" /\ (a.k = "inf" => a.s = -1) /\ (a.k = "num" => a.n < 0)

\* x.where(x > 0, 0) and x.where(x < 0, 0): the entry where the condition
\* holds, 0 elsewhere.
WherePositive(x) ==
    [i \in 1..Len(x) |-> IF Positive(x[i]) THEN x[i] ELSE Num(0, 1)]
WhereNegative(x) ==
    [i \in 1..Len(x) |-> IF Negative(x[i]) THEN x[i] ELSE Num(0, 1)]

RECURSIVE RollState(_, _, _)
\* The sliding window of Series.rolling(window) after entry i has entered it:
\* the running sum and the number of observations, an entry added as it
\* enters and removed as it leaves.
RollState(x, window, i) ==
    IF i = 0 THEN [sum |-> Num(0, 1), nobs |-> 0]
    ELSE LET prev == RollState(x, window, i - 1)
             added == [sum |-> FAdd(prev.sum, x[i]), nobs |-> prev.nobs + 1]
         IN IF i > window
            THEN [sum |-> FSub(added.sum, x[i - window]),
                  nobs |-> added.nobs - 1]
            ELSE added

\* rolling(window, min_periods=1).mean(): a mean of what the window holds.
RollingMeanMinPeriods1(x, window, zs) ==
    [i \in 1..Len(x) |->
        LET st == RollState(x, window, i)
        IN IF st.sum.n = 0 THEN Zero(zs)
           ELSE FDiv(st.sum, Num(st.nobs, 1))]

\* rolling(window).mean() with min_periods = window: NaN until the window is
\* full.  zs is the sign the build gives a mean that is zero.
RollingMean(x, window, zs) ==
    [i \in 1..Len(x) |->
        LET st == RollState(x, window, i)
        IN IF st.nobs < window THEN Nan
           ELSE IF st.sum.n = 0 THEN Zero(zs)
           ELSE FDiv(st.sum, Num(st.nobs, 1))]

AsFloats(x) == [i \in 1..Len(x) |-> Num(x[i], 1)]

\* moving_averages(windows): one column per window.
moving_averages(x, windows) ==
    [w \in windows |-> RollingMean(AsFloats(x), w, 1)]

\* rsi(window).  The entries of loss that are not losses are -0.0, and the
\* sign of their rolling mean depends on the pandas build: zs.
rsi(x, window, zs) ==
    LET delta == Diff(x)
        gain == WherePositive(delta)
        lossNeg == WhereNegative(delta)
        loss == [i \in 1..Len(x) |-> FNeg(lossNeg[i])]
        avg_gain == RollingMean(gain, window, 1)
        avg_loss == RollingMean(loss, window, zs)
    IN [i \in 1..Len(x) |->
           LET rs == FDiv(avg_gain[i], avg_loss[i])
           IN FSub(Num(100, 1), FDiv(Num(100, 1), FAdd(Num(1, 1), rs)))]

\* The series a FinancialAnalyzer is built on: a non-empty DataFrame.
SeriesSet == UNION {[1..n -> 1..MaxPrice] : n \in 1..MaxLen}

Windows == 1..MaxWindow

InitInd ==
    /\ tables = {}
    /\ rows = [t \in Symbols |-> <<>>]
    /\ last = NoCall
    /\ api = NoApi
    /\ runPc = "idle"
    /\ params = NoParams
    /\ idx = 1
    /\ log = <<>>
    /\ data \in SeriesSet
    /\ out = NoOut

\* The indicators are pure and data is never written: one call per analyzer
\* shows all they do.
MovingAverages ==
    /\ out = NoOut
    /\ \E ws \in SUBSET Windows \ {{}} :
          out' = [op |-> "ma", windows |-> ws,
                  vals |-> moving_averages(data, ws)]
    /\ UNCHANGED <<tables, rows, last, api, runPc, params, idx, log, data>>

Rsi ==
    /\ out = NoOut
    /\ \E w \in Windows, zs \in {1, -1} :
          out' = [op |-> "rsi", window |-> w, vals |-> rsi(data, w, zs)]
    /\ UNCHANGED <<tables, rows, last, api, runPc, params, idx, log, data>>

NextInd == MovingAverages \/ Rsi

IndSpec == InitInd /\ [][NextInd]_vars

(* ------------------------------- claims -------------------------------- *)
\* The dates of the stored texts txt that lie in the requested range, read
\* off the calendar: on or after start, and before end when an end is given.
DatesInRange(txt, start, end) ==
    LET In(d) == d >= start /\ (end = None \/ d < end)
    IN SelectSeq(ParseDates(txt), In)

StrictlyAscending(s) == \A i \in 1..(Len(s) - 1) : s[i] < s[i + 1]

\* A step that is one call of _get_data_with_cache for ticker t.
ResolveStep(t) ==
    /\ last.op = "none"
    /\ last'.op = "resolve"
    /\ last'.ticker = t

C3_EmptyFetch ==
    [][(/\ last.op = "none"
        /\ last'.op = "resolve"
        /\ (last'.outcome \in FetchFailures
               \/ (last'.outcome = "ok" /\ last'.fetched = <<>>)))
       => (/\ last'.raised = "none"
           /\ last'.result = <<>>
           /\ tables' = tables
           /\ rows' = rows)]_vars

\* A fetch that failed behind a table none of whose rows satisfied the
\* request, beside a symbol that has no table.
C3_FetchFailed ==
    /\ last.op = "resolve"
    /\ last.outcome = "rate"
    /\ last.result = <<>>
    /\ last.existed
    /\ last.cache_days > 0
    /\ tables # Symbols

\* C4: a resolve call that prunes (non-empty fetch, keepDays > 0) raises
\* nothing and returns the fetched rows.
C4_PruneNeverPropagates ==
    (last.op = "resolve" /\ last.pruned)
    => (last.raised = "none" /\ last.result = last.fetched)

\* C5: after clean_old_data(table, keepDays) with keepDays > 0 the table
\* holds exactly its rows that are not older than now - keepDays, and every
\* other table is as it was.
C5_PruneDeletesOld ==
    (api.op = "clean" /\ api.keep_days > 0)
    => LET Young(t) == ~LexLess(t, CutoffFmt(api.keep_days))
       IN /\ rows[api.table] = SelectSeq(api.before[api.table], Young)
          /\ \A t \in Symbols \ {api.table} : rows[t] = api.before[t]

\* C6: every sequence resolve or load returns is strictly ascending by date.
C6_Ascending ==
    /\ (last.op = "resolve" => StrictlyAscending(last.result))
    /\ (api.op = "load" => StrictlyAscending(api.rows))

\* C7: load_data for a symbol that has no table returns an empty sequence and
\* raises nothing, whatever bounds are given.
C7_LoadUnknown ==
    (api.op = "load" /\ ~api.existed)
    => (api.raised = "none" /\ api.rows = <<>>)

\* C8: whatever fails for a ticker, the loop goes on to the end of the list:
\* a run that is in its loop reaches the end with one log entry per requested
\* ticker, in order.
C8_LoopReachesEnd ==
    (runPc = "loop")
    ~> (/\ runPc = "done"
        /\ Len(log) = Len(params.tickers)
        /\ \A i \in 1..Len(log) : log[i].ticker = params.tickers[i])

\* The run is over, its first ticker failed and the later one was processed.
C8_ErrorThenNext ==
    /\ runPc = "done"
    /\ Len(log) = 2
    /\ log[1].status = "error"
    /\ log[2].status = "ok"

\* No fall in price inside the window that ends at entry i.
NoLoss(x, window, i) ==
    \A j \in (i - window + 1)..i : j >= 2 => x[j] >= x[j - 1]

IsNumber(a, n) == a.k = "num" /\ a.n = n * a.d

\* C9: wherever the window is full and holds no loss, rsi is exactly 100.
C9_RsiZeroLoss ==
    out.op = "rsi"
    => \A i \in out.window..Len(data) :
          NoLoss(data, out.window, i) => IsNumber(out.vals[i], 100)

RECURSIVE WindowSum(_, _, _)
WindowSum(x, from, to) ==
    IF from > to THEN 0 ELSE x[to] + WindowSum(x, from, to - 1)

\* C10: movingAverages(w) has the length of its input, is undefined (NaN, not
\* zero) at the first w - 1 entries and is the arithmetic mean of the trailing
\* w prices at every other entry.
C10_MovingAverage ==
    out.op = "ma"
    => \A w \in out.windows :
          /\ DOMAIN out.vals[w] = DOMAIN data
          /\ \A i \in DOMAIN data :
                IF i < w THEN out.vals[w][i] = Nan
                ELSE /\ out.vals[w][i].k = "num"
                     /\ out.vals[w][i].n * w
                           = WindowSum(data, i - w + 1, i) * out.vals[w][i].d

\* A moving average with undefined and defined entries.
C10_PartlyDefined ==
    /\ out.op = "ma"
    /\ \E w \in out.windows : 1 < w /\ w < Len(data)
    /\ \E i, j \in DOMAIN data : data[i] # data[j]

====
